---- MODULE Spec2Model ----
(***************************************************************************)
(* Adjacency-list weighted graphs of gogl: the shared store baseWeighted,  *)
(* its directed specialisation weightedDirected and its undirected         *)
(* specialisation undirectedWeighted.  Mutations run under the write lock  *)
(* and are atomic actions; an enumerator hands every element to a caller   *)
(* supplied callback and is modelled one loop iteration per step.          *)
(***************************************************************************)
EXTENDS Integers, Sequences, FiniteSets, TLC

\* ---------------------------------------------------------------- bounds
\* Longest variadic argument list of EnsureVertex/RemoveVertex/AddEdges/
\* RemoveEdges that is explored.
MaxBatch == 2
\* Cap of the edge counter g.size: AddEdges is not explored beyond it.
MaxSize == 3

\* Vertex values (any comparable Go value; three names of the test fixtures).
Vertices == {"foo", "bar", "baz"}
\* Edge weights (int).
Weights == {1, 2}

\* A WeightedEdge: BaseWeightedEdge{BaseEdge{U, V}, W}.
Edges == [U : Vertices, V : Vertices, W : Weights]
\* What Edge.Both() returns.
Pairs == Vertices \X Vertices

RECURSIVE SeqsUpTo(_, _)
SeqsUpTo(S, n) ==
    IF n = 0 THEN {<<>>}
    ELSE LET shorter == SeqsUpTo(S, n - 1)
         IN  shorter \cup {Append(s, x) : s \in {t \in shorter : Len(t) = n - 1}, x \in S}

\* Non-empty argument lists (an empty list returns before taking the lock).
VertexBatches == SeqsUpTo(Vertices, MaxBatch) \ {<<>>}
EdgeBatches == SeqsUpTo(Edges, MaxBatch) \ {<<>>}
PairBatches == SeqsUpTo(Pairs, MaxBatch) \ {<<>>}

\* ----------------------------------------------------------------- state
VARIABLES
    kind,     \* which constructor built g: "directed" or "undirected"
    list,     \* g.list: map[Vertex]map[Vertex]int
    size,     \* g.size
    op,       \* the caller's position: "idle", or the method it is in
    args,     \* the arguments of that call
    pre,      \* list and size as they were when that call started
    cb,       \* the callback passed to an enumerator: "collect" or "stop"
    outer,    \* keys of g.list the outer range loop has not produced yet
    src,      \* the key the outer range loop is at (empty or one element)
    inner,    \* keys of the neighbour map the inner range loop has not produced yet
    visited,  \* the local set `visited` of the undirected edge enumerators
    calls,    \* callback invocations of this call: argument -> number of calls
    ret,      \* the values a query has returned
    immutableGraphs,  \* the package variable immutableGraphs: name -> template
    gi,       \* the field gi.g of the ImmutableGraphInitializer handed out
    th,       \* per thread: where it is in its call, and the call's locals
    mu        \* g.mu: the writer, whether it holds the lock, read holds per thread

vars == <<kind, list, size, op, args, pre, cb, outer, src, inner, visited, calls, ret,
          immutableGraphs, gi, th, mu>>
loop == <<cb, outer, src, inner, visited, calls>>
reg == <<immutableGraphs, gi>>
conc == <<th, mu>>

\* ------------------------------------------------------------ Go maps
EmptyMap == [x \in {} |-> 0]
MapPut(m, k, v) == [x \in DOMAIN m \cup {k} |-> IF x = k THEN v ELSE m[x]]
MapDel(m, k) == [x \in DOMAIN m \ {k} |-> m[x]]
\* m[k] of a map of maps; the zero value (a nil map) when k is absent.
Adj(l, k) == IF k \in DOMAIN l THEN l[k] ELSE EmptyMap

\* ------------------------------------------------- baseWeighted helpers
hasVertex(l, v) == v \in DOMAIN l

\* ensureVertex as it would be without the hasVertex test: a present vertex
\* gets a fresh neighbour map.
RECURSIVE ensureVertexFresh(_, _)
ensureVertexFresh(l, vs) ==
    IF vs = <<>> THEN l
    ELSE ensureVertexFresh(MapPut(l, Head(vs), EmptyMap), Tail(vs))

RECURSIVE ensureVertex(_, _)
ensureVertex(l, vs) ==
    IF vs = <<>> THEN l
    ELSE ensureVertex(IF hasVertex(l, Head(vs)) THEN l ELSE MapPut(l, Head(vs), EmptyMap),
                      Tail(vs))

Order(l) == Cardinality(DOMAIN l)

\* ------------------------------------------- weightedDirected mutations
\* directedAddEdge as it would be if the last write won: the weight of a
\* stored slot is overwritten.
directedAddEdgeOverwrite(g, e) ==
    LET l1 == ensureVertex(g.list, <<e.U, e.V>>)
    IN  [list |-> MapPut(l1, e.U, MapPut(l1[e.U], e.V, e.W)),
         size |-> IF e.V \in DOMAIN l1[e.U] THEN g.size ELSE g.size + 1]

\* One iteration of the loop of addEdges: the edge is stored only when the
\* slot list[source][target] is empty.
directedAddEdge(g, e) ==
    LET l1 == ensureVertex(g.list, <<e.U, e.V>>)
    IN  IF e.V \in DOMAIN l1[e.U]
        THEN [list |-> l1, size |-> g.size]
        ELSE [list |-> MapPut(l1, e.U, MapPut(l1[e.U], e.V, e.W)), size |-> g.size + 1]

RECURSIVE directedAddEdges(_, _)
directedAddEdges(g, edges) ==
    IF edges = <<>> THEN g
    ELSE directedAddEdges(directedAddEdge(g, Head(edges)), Tail(edges))

\* directedRemoveEdge as it would be if the reverse arc were deleted too.
directedRemoveEdgeBoth(g, p) ==
    IF p[2] \in DOMAIN Adj(g.list, p[1])
    THEN LET l1 == MapPut(g.list, p[1], MapDel(g.list[p[1]], p[2]))
             l2 == IF p[2] \in DOMAIN l1 THEN MapPut(l1, p[2], MapDel(l1[p[2]], p[1])) ELSE l1
         IN  [list |-> l2, size |-> g.size - 1]
    ELSE g

\* One iteration of the loop of RemoveEdges; p is edge.Both().
directedRemoveEdge(g, p) ==
    IF p[2] \in DOMAIN Adj(g.list, p[1])
    THEN [list |-> MapPut(g.list, p[1], MapDel(g.list[p[1]], p[2])), size |-> g.size - 1]
    ELSE g

RECURSIVE directedRemoveEdges(_, _)
directedRemoveEdges(g, ps) ==
    IF ps = <<>> THEN g
    ELSE directedRemoveEdges(directedRemoveEdge(g, Head(ps)), Tail(ps))

\* directedRemoveOne as it would be if the arcs into the vertex were
\* stripped without being taken off the counter.
directedRemoveOneNoCount(g, v) ==
    IF hasVertex(g.list, v)
    THEN LET l1 == MapDel(g.list, v)
         IN  [list |-> [k \in DOMAIN l1 |-> MapDel(l1[k], v)],
              size |-> g.size - Cardinality(DOMAIN g.list[v])]
    ELSE g

\* directedRemoveOne as it would be without the scan of the other
\* neighbour maps.
directedRemoveOneKeyOnly(g, v) ==
    IF hasVertex(g.list, v)
    THEN [list |-> MapDel(g.list, v),
          size |-> g.size - Cardinality({p \in Pairs : p[1] \in DOMAIN g.list
                                          /\ p[2] \in DOMAIN g.list[p[1]]
                                          /\ (p[1] = v \/ p[2] = v)})]
    ELSE g

\* One iteration of the loop of RemoveVertex: the out-degree leaves the
\* counter, the key is deleted, then every remaining neighbour map is scanned.
directedRemoveOne(g, v) ==
    IF hasVertex(g.list, v)
    THEN LET l1 == MapDel(g.list, v)
             into == {k \in DOMAIN l1 : v \in DOMAIN l1[k]}
         IN  [list |-> [k \in DOMAIN l1 |-> MapDel(l1[k], v)],
              size |-> g.size - Cardinality(DOMAIN g.list[v]) - Cardinality(into)]
    ELSE g

RECURSIVE directedRemoveVertex(_, _)
directedRemoveVertex(g, vs) ==
    IF vs = <<>> THEN g
    ELSE directedRemoveVertex(directedRemoveOne(g, Head(vs)), Tail(vs))

\* ----------------------------------------- undirectedWeighted mutations
\* undirectedAddEdge as it would be if each written slot were counted.
undirectedAddEdgeCountSlots(g, e) ==
    LET l1 == ensureVertex(g.list, <<e.U, e.V>>)
    IN  IF e.V \in DOMAIN l1[e.U]
        THEN [list |-> l1, size |-> g.size]
        ELSE LET l2 == MapPut(l1, e.U, MapPut(l1[e.U], e.V, e.W))
                 l3 == MapPut(l2, e.V, MapPut(l2[e.V], e.U, e.W))
             IN  [list |-> l3, size |-> g.size + 2]

\* undirectedAddEdge as it would be if the last write won: both slots are
\* overwritten with the new weight.
undirectedAddEdgeOverwrite(g, e) ==
    LET l1 == ensureVertex(g.list, <<e.U, e.V>>)
        l2 == MapPut(l1, e.U, MapPut(l1[e.U], e.V, e.W))
        l3 == MapPut(l2, e.V, MapPut(l2[e.V], e.U, e.W))
    IN  [list |-> l3, size |-> IF e.V \in DOMAIN l1[e.U] THEN g.size ELSE g.size + 1]

\* One iteration of the loop of addEdges: both direction slots are written
\* when list[source][target] is empty.
undirectedAddEdge(g, e) ==
    LET l1 == ensureVertex(g.list, <<e.U, e.V>>)
    IN  IF e.V \in DOMAIN l1[e.U]
        THEN [list |-> l1, size |-> g.size]
        ELSE LET l2 == MapPut(l1, e.U, MapPut(l1[e.U], e.V, e.W))
                 l3 == MapPut(l2, e.V, MapPut(l2[e.V], e.U, e.W))
             IN  [list |-> l3, size |-> g.size + 1]

RECURSIVE undirectedAddEdges(_, _)
undirectedAddEdges(g, edges) ==
    IF edges = <<>> THEN g
    ELSE undirectedAddEdges(undirectedAddEdge(g, Head(edges)), Tail(edges))

\* undirectedRemoveEdge as it would be if only the forward slot were deleted.
undirectedRemoveEdgeForward(g, p) ==
    IF p[2] \in DOMAIN Adj(g.list, p[1])
    THEN [list |-> MapPut(g.list, p[1], MapDel(g.list[p[1]], p[2])), size |-> g.size - 1]
    ELSE g

\* One iteration of the loop of RemoveEdges; delete on a missing map is a no-op.
undirectedRemoveEdge(g, p) ==
    IF p[2] \in DOMAIN Adj(g.list, p[1])
    THEN LET l1 == MapPut(g.list, p[1], MapDel(g.list[p[1]], p[2]))
             l2 == IF p[2] \in DOMAIN l1 THEN MapPut(l1, p[2], MapDel(l1[p[2]], p[1])) ELSE l1
         IN  [list |-> l2, size |-> g.size - 1]
    ELSE g

RECURSIVE undirectedRemoveEdges(_, _)
undirectedRemoveEdges(g, ps) ==
    IF ps = <<>> THEN g
    ELSE undirectedRemoveEdges(undirectedRemoveEdge(g, Head(ps)), Tail(ps))

\* One iteration of the loop of RemoveVertex: eachAdjacent(vertex, f) deletes
\* the vertex from the map of each of its neighbours (from its own map too
\* when it is its own neighbour); only then is len(list[vertex]) taken off
\* the counter and the key deleted.
undirectedRemoveOne(g, v) ==
    IF hasVertex(g.list, v)
    THEN LET nbrs == DOMAIN g.list[v]
             l1 == [k \in DOMAIN g.list |->
                        IF k \in nbrs THEN MapDel(g.list[k], v) ELSE g.list[k]]
         IN  [list |-> MapDel(l1, v), size |-> g.size - Cardinality(DOMAIN l1[v])]
    ELSE g

RECURSIVE undirectedRemoveVertex(_, _)
undirectedRemoveVertex(g, vs) ==
    IF vs = <<>> THEN g
    ELSE undirectedRemoveVertex(undirectedRemoveOne(g, Head(vs)), Tail(vs))

\* ------------------------------------------------------------- actions
G == [list |-> list, size |-> size]
NoGraph == [list |-> EmptyMap, size |-> 0]

\* The goroutines that call into one graph, and a goroutine between calls.
Threads == {"t1", "t2"}
NoThread == "none"
IdleThread == [pc |-> "idle", op |-> "none", todo |-> <<>>, keys |-> {}, ret |-> <<>>,
               before |-> NoGraph, after |-> NoGraph, seen |-> <<>>]
\* The zero value of sync.RWMutex.
FreeLock == [w |-> NoThread, held |-> FALSE, r |-> [t \in Threads |-> 0]]
\* No initializer has been handed out.
NoInitializer == "none"

\* NewDirectedWeighted() / NewUndirectedWeighted(): an empty graph.
Init ==
    /\ kind \in {"directed", "undirected"}
    /\ list = EmptyMap
    /\ size = 0
    /\ op = "idle"
    /\ args = <<>>
    /\ pre = NoGraph
    /\ cb = "collect"
    /\ outer = {}
    /\ src = {}
    /\ inner = {}
    /\ visited = {}
    /\ calls = EmptyMap
    /\ ret = <<>>
    /\ immutableGraphs = EmptyMap
    /\ gi = NoInitializer
    /\ th = [t \in Threads |-> IdleThread]
    /\ mu = FreeLock

\* A mutating method, from Lock to the deferred Unlock: g becomes g2.
Mutate(name, a, g2) ==
    /\ op = "idle"
    /\ op' = name
    /\ args' = a
    /\ pre' = G
    /\ list' = g2.list
    /\ size' = g2.size
    /\ UNCHANGED <<kind, loop, ret, reg, conc>>

EnsureVertex(vs) ==
    Mutate("EnsureVertex", vs, [list |-> ensureVertex(list, vs), size |-> size])

DirectedAddEdges(edges) ==
    /\ kind = "directed"
    /\ size + Len(edges) <= MaxSize
    /\ Mutate("AddEdges", edges, directedAddEdges(G, edges))

DirectedRemoveEdges(ps) ==
    kind = "directed" /\ Mutate("RemoveEdges", ps, directedRemoveEdges(G, ps))

DirectedRemoveVertex(vs) ==
    kind = "directed" /\ Mutate("RemoveVertex", vs, directedRemoveVertex(G, vs))

UndirectedAddEdges(edges) ==
    /\ kind = "undirected"
    /\ size + Len(edges) <= MaxSize
    /\ Mutate("AddEdges", edges, undirectedAddEdges(G, edges))

UndirectedRemoveEdges(ps) ==
    kind = "undirected" /\ Mutate("RemoveEdges", ps, undirectedRemoveEdges(G, ps))

UndirectedRemoveVertex(vs) ==
    kind = "undirected" /\ Mutate("RemoveVertex", vs, undirectedRemoveVertex(G, vs))

EnsureVertexCall == op = "idle" /\ \E vs \in VertexBatches : EnsureVertex(vs)
DirectedAddEdgesCall == op = "idle" /\ \E edges \in EdgeBatches : DirectedAddEdges(edges)
DirectedRemoveEdgesCall == op = "idle" /\ \E ps \in PairBatches : DirectedRemoveEdges(ps)
DirectedRemoveVertexCall == op = "idle" /\ \E vs \in VertexBatches : DirectedRemoveVertex(vs)
UndirectedAddEdgesCall == op = "idle" /\ \E edges \in EdgeBatches : UndirectedAddEdges(edges)
UndirectedRemoveEdgesCall == op = "idle" /\ \E ps \in PairBatches : UndirectedRemoveEdges(ps)
UndirectedRemoveVertexCall == op = "idle" /\ \E vs \in VertexBatches : UndirectedRemoveVertex(vs)

\* -------------------------------------------------------------- queries
\* weightedDirected.OutDegree: (degree, exists).
directedOutDegree(l, v) ==
    IF hasVertex(l, v) THEN <<Cardinality(DOMAIN l[v]), TRUE>> ELSE <<0, FALSE>>

\* The scan of weightedDirected.InDegree: for every key e, EachAdjacent(e, f)
\* with f counting the adjacent vertices equal to v.
RECURSIVE inDegreeScan(_, _, _)
inDegreeScan(l, v, keys) ==
    IF keys = {} THEN 0
    ELSE LET e == CHOOSE k \in keys : TRUE
         IN  Cardinality({a \in (IF hasVertex(l, e) THEN DOMAIN l[e] ELSE {}) : a = v})
                 + inDegreeScan(l, v, keys \ {e})

\* directedInDegree as it would be if it had been copied from OutDegree.
directedInDegreeAsOut(l, v) ==
    IF hasVertex(l, v) THEN <<Cardinality(DOMAIN l[v]), TRUE>> ELSE <<0, FALSE>>

\* weightedDirected.InDegree: (degree, exists).
directedInDegree(l, v) ==
    IF hasVertex(l, v) THEN <<inDegreeScan(l, v, DOMAIN l), TRUE>> ELSE <<0, FALSE>>

\* undirectedOutDegree as it would be without the hasVertex test.
undirectedOutDegreeNoTest(l, v) == <<Cardinality(DOMAIN Adj(l, v)), TRUE>>

\* undirectedWeighted.OutDegree: (degree, exists).
undirectedOutDegree(l, v) ==
    IF hasVertex(l, v) THEN <<Cardinality(DOMAIN l[v]), TRUE>> ELSE <<0, FALSE>>

\* undirectedWeighted.InDegree: return g.OutDegree(vertex).
undirectedInDegree(l, v) == undirectedOutDegree(l, v)

\* A query, from RLock to the deferred RUnlock: it returns r.
Query(name, a, r) ==
    /\ op = "idle"
    /\ op' = name
    /\ args' = a
    /\ pre' = G
    /\ ret' = r
    /\ UNCHANGED <<kind, list, size, loop, reg, conc>>

HasVertexCall == op = "idle" /\ \E v \in Vertices :
    Query("HasVertex", <<v>>, <<hasVertex(list, v)>>)

OrderCall == Query("Order", <<>>, <<Order(list)>>)

\* Size(): return g.size.
SizeCall == Query("Size", <<>>, <<size>>)

DirectedOutDegreeCall == op = "idle" /\ kind = "directed" /\ \E v \in Vertices :
    Query("OutDegree", <<v>>, directedOutDegree(list, v))

DirectedInDegreeCall == op = "idle" /\ kind = "directed" /\ \E v \in Vertices :
    Query("InDegree", <<v>>, directedInDegree(list, v))

UndirectedOutDegreeCall == op = "idle" /\ kind = "undirected" /\ \E v \in Vertices :
    Query("OutDegree", <<v>>, undirectedOutDegree(list, v))

UndirectedInDegreeCall == op = "idle" /\ kind = "undirected" /\ \E v \in Vertices :
    Query("InDegree", <<v>>, undirectedInDegree(list, v))

\* ---------------------------------------------------------- enumerators
\* The values handed to the callbacks: BaseEdge{U, V} and
\* BaseWeightedEdge{BaseEdge{U, V}, W} are values of two different types.
BaseEdge(u, v) == [U |-> u, V |-> v]
BaseWeightedEdge(u, v, w) == [U |-> u, V |-> v, W |-> w]

\* f(x): one more invocation of the callback, with argument x.
Invoke(c, x) == IF x \in DOMAIN c THEN [c EXCEPT ![x] = @ + 1] ELSE MapPut(c, x, 1)

\* undirectedEachEdgeBody as it would be if the set were asked for the
\* forward pair instead of the reverse one.
undirectedEachEdgeBodyForward(st, s, t) ==
    IF BaseEdge(s, t) \notin st.visited
    THEN [visited |-> st.visited \cup {BaseEdge(s, t)},
          calls |-> Invoke(st.calls, BaseEdge(s, t))]
    ELSE st

\* The body of the inner loop of undirectedWeighted.EachEdge for the stored
\* pair (s, t): the edge is passed on unless its reverse was visited.
undirectedEachEdgeBody(st, s, t) ==
    IF BaseEdge(t, s) \notin st.visited
    THEN [visited |-> st.visited \cup {BaseEdge(s, t)},
          calls |-> Invoke(st.calls, BaseEdge(s, t))]
    ELSE st

\* The body of the inner loop of undirectedWeighted.EachWeightedEdge: the set
\* is asked for BaseEdge{target, source} and is given the BaseWeightedEdge e.
undirectedEachWeightedEdgeBody(st, s, t, w) ==
    IF BaseEdge(t, s) \notin st.visited
    THEN [visited |-> st.visited \cup {BaseWeightedEdge(s, t, w)},
          calls |-> Invoke(st.calls, BaseWeightedEdge(s, t, w))]
    ELSE st

\* The keys EachAdjacent ranges over: those of list[vertex] when it exists.
eachAdjacent(l, v) == IF hasVertex(l, v) THEN DOMAIN l[v] ELSE {}

\* An enumerator starts: RLock, then the (outer) range loop is set up.
Begin(name, a, c, keys, nbrs) ==
    /\ op = "idle"
    /\ op' = name
    /\ args' = a
    /\ pre' = G
    /\ cb' = c
    /\ outer' = keys
    /\ inner' = nbrs
    /\ UNCHANGED <<kind, list, size, src, visited, calls, ret, reg, conc>>

EachVertexBegin == \E c \in {"collect", "stop"} :
    Begin("EachVertex", <<>>, c, DOMAIN list, {})

\* for v := range g.list { f(v) }: what f returns, if anything, is not looked at.
EachVertexStep ==
    /\ op = "EachVertex"
    /\ \E v \in outer :
        /\ outer' = outer \ {v}
        /\ calls' = Invoke(calls, v)
    /\ UNCHANGED <<kind, list, size, op, args, pre, cb, src, inner, visited, ret, reg, conc>>

EachAdjacentBegin == \E c \in {"collect", "stop"}, v \in Vertices :
    Begin("EachAdjacent", <<v>>, c, {}, eachAdjacent(list, v))

EachAdjacentStep ==
    /\ op = "EachAdjacent"
    /\ \E t \in inner :
        /\ inner' = inner \ {t}
        /\ calls' = Invoke(calls, t)
    /\ UNCHANGED <<kind, list, size, op, args, pre, cb, outer, src, visited, ret, reg, conc>>

EachEdgeBegin == \E c \in {"collect", "stop"} :
    Begin("EachEdge", <<>>, c, DOMAIN list, {})

EachWeightedEdgeBegin == \E c \in {"collect", "stop"} :
    Begin("EachWeightedEdge", <<>>, c, DOMAIN list, {})

\* RangeSource as it would be if the inner loop passed over the source itself.
RangeSourceSkipSelf ==
    /\ op \in {"EachEdge", "EachWeightedEdge"}
    /\ inner = {}
    /\ \E s \in outer :
        /\ outer' = outer \ {s}
        /\ src' = {s}
        /\ inner' = DOMAIN list[s] \ {s}
    /\ UNCHANGED <<kind, list, size, op, args, pre, cb, visited, calls, ret, reg, conc>>

\* for source, adjacent := range g.list: the outer loop moves to its next key.
RangeSource ==
    /\ op \in {"EachEdge", "EachWeightedEdge"}
    /\ inner = {}
    /\ \E s \in outer :
        /\ outer' = outer \ {s}
        /\ src' = {s}
        /\ inner' = DOMAIN list[s]
    /\ UNCHANGED <<kind, list, size, op, args, pre, cb, visited, calls, ret, reg, conc>>

\* One iteration of the inner loop, at target t of source s: st is what
\* its body leaves in visited and calls.
RangeTarget(name, k, s, t, st) ==
    /\ op = name
    /\ kind = k
    /\ inner' = inner \ {t}
    /\ visited' = st.visited
    /\ calls' = st.calls
    /\ UNCHANGED <<kind, list, size, op, args, pre, cb, outer, src, ret, reg, conc>>

DirectedEachEdgeStep ==
    \E s \in src, t \in inner :
        RangeTarget("EachEdge", "directed", s, t,
                    [visited |-> visited, calls |-> Invoke(calls, BaseEdge(s, t))])

DirectedEachWeightedEdgeStep ==
    \E s \in src, t \in inner :
        RangeTarget("EachWeightedEdge", "directed", s, t,
                    [visited |-> visited,
                     calls |-> Invoke(calls, BaseWeightedEdge(s, t, list[s][t]))])

UndirectedEachEdgeStep ==
    \E s \in src, t \in inner :
        RangeTarget("EachEdge", "undirected", s, t,
                    undirectedEachEdgeBody([visited |-> visited, calls |-> calls], s, t))

UndirectedEachWeightedEdgeStep ==
    \E s \in src, t \in inner :
        RangeTarget("EachWeightedEdge", "undirected", s, t,
                    undirectedEachWeightedEdgeBody([visited |-> visited, calls |-> calls],
                                                   s, t, list[s][t]))

\* The call returns to the caller, which may then make its next call.
Return ==
    /\ op # "idle"
    /\ outer = {}
    /\ inner = {}
    /\ op' = "idle"
    /\ args' = <<>>
    /\ pre' = NoGraph
    /\ cb' = "collect"
    /\ src' = {}
    /\ visited' = {}
    /\ calls' = EmptyMap
    /\ ret' = <<>>
    /\ UNCHANGED <<kind, list, size, outer, inner, reg, conc>>

Next ==
    \/ EnsureVertexCall
    \/ DirectedAddEdgesCall
    \/ DirectedRemoveEdgesCall
    \/ DirectedRemoveVertexCall
    \/ UndirectedAddEdgesCall
    \/ UndirectedRemoveEdgesCall
    \/ UndirectedRemoveVertexCall
    \/ HasVertexCall
    \/ OrderCall
    \/ SizeCall
    \/ DirectedOutDegreeCall
    \/ DirectedInDegreeCall
    \/ UndirectedOutDegreeCall
    \/ UndirectedInDegreeCall
    \/ EachVertexBegin
    \/ EachVertexStep
    \/ EachAdjacentBegin
    \/ EachAdjacentStep
    \/ EachEdgeBegin
    \/ EachWeightedEdgeBegin
    \/ RangeSource
    \/ DirectedEachEdgeStep
    \/ DirectedEachWeightedEdgeStep
    \/ UndirectedEachEdgeStep
    \/ UndirectedEachWeightedEdgeStep
    \/ Return

Spec == Init /\ [][Next]_vars

\* -------------------------------------------- immutable-graph registry
\* The names a caller asks for, and the templates a caller registers: a
\* template is a zero-value graph of one of the two concrete kinds.
Names == {"al", "am"}
Templates == {"directed", "undirected"}

\* What gi.g refers to: the graph the initializer was created with, or nil.
TheGraph == "graph"
Nil == "nil"

\* The state a registry call started in.
RegPre == [list |-> list, size |-> size, kind |-> kind, g |-> gi,
           immutableGraphs |-> immutableGraphs]

\* init(): the registry is an empty map, no graph and no initializer exist.
InitReg ==
    /\ kind = "none"
    /\ list = EmptyMap
    /\ size = 0
    /\ op = "idle"
    /\ args = <<>>
    /\ pre = NoGraph
    /\ cb = "collect"
    /\ outer = {}
    /\ src = {}
    /\ inner = {}
    /\ visited = {}
    /\ calls = EmptyMap
    /\ ret = <<>>
    /\ immutableGraphs = EmptyMap
    /\ gi = NoInitializer
    /\ th = [t \in Threads |-> IdleThread]
    /\ mu = FreeLock

\* Register(name, template): map insertion, a later one overwrites.
Register(name, template) ==
    /\ op' = "Register"
    /\ args' = <<name, template>>
    /\ pre' = RegPre
    /\ ret' = <<>>
    /\ immutableGraphs' = MapPut(immutableGraphs, name, template)
    /\ UNCHANGED <<kind, list, size, loop, gi, conc>>

RegisterCall == op = "idle" /\ \E name \in Names, template \in Templates : Register(name, template)

\* A variant of the lookup that finds a template under every name.
createImmutableGraphAnyName(m, name) ==
    [initializer |-> TheGraph, err |-> Nil,
     template |-> IF name \in DOMAIN m THEN m[name] ELSE "directed"]

\* CreateImmutableGraph(name): a map read of an absent name yields nil and
\* the function returns (nil, error); otherwise a fresh zero value of the
\* template's type goes into a new initializer.
createImmutableGraph(m, name) ==
    IF name \notin DOMAIN m
    THEN [initializer |-> Nil, err |-> "gogl: Unregistered graph type", template |-> Nil]
    ELSE [initializer |-> TheGraph, err |-> Nil, template |-> m[name]]

CreateImmutableGraph(name) ==
    LET r == createImmutableGraph(immutableGraphs, name)
    IN  /\ op' = "CreateImmutableGraph"
        /\ args' = <<name>>
        /\ pre' = RegPre
        /\ ret' = <<r.initializer, r.err>>
        /\ IF r.initializer = Nil
           THEN UNCHANGED <<kind, list, size, gi>>
           ELSE /\ gi = NoInitializer
                /\ kind' = r.template
                /\ list' = EmptyMap
                /\ size' = 0
                /\ gi' = r.initializer
        /\ UNCHANGED <<loop, immutableGraphs, conc>>

CreateImmutableGraphCall == op = "idle" /\ \E name \in Names : CreateImmutableGraph(name)

\* A call of a method on gi.g: on the nil interface it panics and nothing
\* is written.
InitializerCall(name, a, g2) ==
    /\ gi # NoInitializer
    /\ op' = name
    /\ args' = a
    /\ pre' = RegPre
    /\ IF gi = Nil
       THEN ret' = <<"panic">> /\ UNCHANGED <<list, size>>
       ELSE ret' = <<>> /\ list' = g2.list /\ size' = g2.size
    /\ UNCHANGED <<kind, loop, reg, conc>>

\* gi.g.ensureVertex(vertices...)
InitializerEnsureVertex(vs) ==
    InitializerCall("gi.EnsureVertex", vs, [list |-> ensureVertex(list, vs), size |-> size])

InitializerEnsureVertexCall == op = "idle" /\ \E vs \in VertexBatches : InitializerEnsureVertex(vs)

\* gi.g.addEdge(edge): the graph's insertion of one edge.
addEdge(g, e) ==
    IF kind = "directed" THEN directedAddEdge(g, e) ELSE undirectedAddEdge(g, e)

InitializerAddEdge(e) ==
    /\ size + 1 <= MaxSize
    /\ InitializerCall("gi.AddEdge", <<e>>, addEdge(G, e))

InitializerAddEdgeCall == op = "idle" /\ \E e \in Edges : InitializerAddEdge(e)

\* A variant of GetGraph without the deferred assignment.
getGraphKeep(g) == [ret |-> g, g |-> g]

\* GetGraph(): returns gi.g; the deferred function sets gi.g to nil.
getGraph(g) == [ret |-> g, g |-> Nil]

GetGraph ==
    /\ op = "idle"
    /\ gi # NoInitializer
    /\ op' = "GetGraph"
    /\ args' = <<>>
    /\ pre' = RegPre
    /\ ret' = <<getGraph(gi).ret>>
    /\ gi' = getGraph(gi).g
    /\ UNCHANGED <<kind, list, size, loop, immutableGraphs, conc>>

NextReg ==
    \/ RegisterCall
    \/ CreateImmutableGraphCall
    \/ InitializerEnsureVertexCall
    \/ InitializerAddEdgeCall
    \/ GetGraph
    \/ Return

SpecReg == InitReg /\ [][NextReg]_vars

\* ---------------------------------- several goroutines on one graph
\* The arguments the goroutines pass.
ConcVertices == {"foo", "bar"}
ConcEdges == {e \in Edges : e.U \in ConcVertices /\ e.V \in ConcVertices /\ e.W = 1}
ConcVertexBatches == SeqsUpTo(ConcVertices, MaxBatch) \ {<<>>}
ConcEdgeBatches == SeqsUpTo(ConcEdges, MaxBatch) \ {<<>>}
ConcPairBatches == SeqsUpTo(ConcVertices \X ConcVertices, MaxBatch) \ {<<>>}

\* Methods that take Lock, methods that take RLock once, methods that take
\* RLock and then call a public method that takes RLock again, and Size,
\* which takes no lock.
WriteOps == {"EnsureVertex", "AddEdges", "RemoveEdges", "RemoveVertex"}
NestedOps == IF kind = "directed" THEN {"InDegree", "Density"} ELSE {"Density"}
ReadOps ==
    {"EachVertex", "EachAdjacent", "HasVertex", "Order", "OutDegree",
     "EachEdge", "EachWeightedEdge"} \cup (IF kind = "undirected" THEN {"InDegree"} ELSE {})
PublicOps == WriteOps \cup ReadOps \cup NestedOps \cup {"Size"}

Set(t, r) == th' = [th EXCEPT ![t] = r]

\* A goroutine calls a method.
Enter(t) ==
    /\ th[t].pc = "idle"
    /\ \E name \in PublicOps : Set(t, [IdleThread EXCEPT !.pc = "enter", !.op = name])
    /\ UNCHANGED <<kind, list, size, op, args, pre, loop, ret, reg, mu>>

\* A variant of RLock that does not wait for a writer.
CanRLockAlways == TRUE

\* sync.RWMutex: RLock blocks while a writer holds the lock or waits for it.
CanRLock == mu.w = NoThread

\* sync.RWMutex: Lock excludes other writers and from then on blocks new
\* readers ...
LockRequest(t) ==
    /\ th[t].pc = "enter"
    /\ th[t].op \in WriteOps
    /\ mu.w = NoThread
    /\ mu' = [mu EXCEPT !.w = t]
    /\ Set(t, [th[t] EXCEPT !.pc = "pending"])
    /\ UNCHANGED <<kind, list, size, op, args, pre, loop, ret, reg>>

\* The whole effect of the batch a writer is about to apply.
Apply(name, g, batch) ==
    CASE name = "EnsureVertex" -> [list |-> ensureVertex(g.list, batch), size |-> g.size]
      [] name = "AddEdges" ->
            IF kind = "directed" THEN directedAddEdges(g, batch) ELSE undirectedAddEdges(g, batch)
      [] name = "RemoveEdges" ->
            IF kind = "directed" THEN directedRemoveEdges(g, batch) ELSE undirectedRemoveEdges(g, batch)
      [] name = "RemoveVertex" ->
            IF kind = "directed" THEN directedRemoveVertex(g, batch) ELSE undirectedRemoveVertex(g, batch)

Batches(name) ==
    CASE name = "EnsureVertex" -> ConcVertexBatches
      [] name = "AddEdges" -> {b \in ConcEdgeBatches : size + Len(b) <= MaxSize}
      [] name = "RemoveEdges" -> ConcPairBatches
      [] name = "RemoveVertex" -> ConcVertexBatches

\* ... and returns once every read hold is released.  The writer is then in
\* its critical section; an AddEdges call has its argument list before it.
LockAcquire(t) ==
    /\ th[t].pc = "pending"
    /\ \A u \in Threads : mu.r[u] = 0
    /\ mu' = [mu EXCEPT !.held = TRUE]
    /\ IF th[t].op = "AddEdges"
       THEN \E batch \in Batches("AddEdges") :
               Set(t, [th[t] EXCEPT !.pc = "locked", !.todo = batch, !.before = G,
                                    !.after = Apply("AddEdges", G, batch)])
       ELSE Set(t, [th[t] EXCEPT !.pc = "locked"])
    /\ UNCHANGED <<kind, list, size, op, args, pre, loop, ret, reg>>

\* One iteration of the loop of addEdges over its argument list.
WriteStep(t) ==
    /\ th[t].pc = "locked"
    /\ th[t].op = "AddEdges"
    /\ LET g2 == Apply("AddEdges", G, <<Head(th[t].todo)>>)
       IN  list' = g2.list /\ size' = g2.size
    /\ Set(t, [th[t] EXCEPT !.todo = Tail(@),
                            !.pc = IF Tail(th[t].todo) = <<>> THEN "done" ELSE "locked"])
    /\ UNCHANGED <<kind, op, args, pre, loop, ret, reg, mu>>

\* The body of EnsureVertex, RemoveEdges or RemoveVertex.
WriteBody(t) ==
    /\ th[t].pc = "locked"
    /\ th[t].op # "AddEdges"
    /\ \E batch \in Batches(th[t].op) :
          LET g2 == Apply(th[t].op, G, batch)
          IN  list' = g2.list /\ size' = g2.size
    /\ Set(t, [th[t] EXCEPT !.pc = "done"])
    /\ UNCHANGED <<kind, op, args, pre, loop, ret, reg, mu>>

\* The deferred Unlock, and the return.
Unlock(t) ==
    /\ th[t].pc = "done"
    /\ mu' = [mu EXCEPT !.w = NoThread, !.held = FALSE]
    /\ Set(t, IdleThread)
    /\ UNCHANGED <<kind, list, size, op, args, pre, loop, ret, reg>>

\* RLock at the top of a reading method.
RLock(t) ==
    /\ th[t].pc = "enter"
    /\ th[t].op \in ReadOps \cup NestedOps
    /\ CanRLock
    /\ mu' = [mu EXCEPT !.r[t] = @ + 1]
    /\ Set(t, [th[t] EXCEPT !.pc = "rlocked"])
    /\ UNCHANGED <<kind, list, size, op, args, pre, loop, ret, reg>>

\* The graph as it was before and as it will be after the AddEdges batch
\* that is being applied right now, if there is one.
Span ==
    IF \E w \in Threads : th[w].pc = "locked" /\ th[w].op = "AddEdges"
    THEN LET w == CHOOSE w \in Threads : th[w].pc = "locked" /\ th[w].op = "AddEdges"
         IN  <<th[w].before, th[w].after>>
    ELSE <<G, G>>

\* What a method that reads under one RLock returns.
Result(name, v) ==
    CASE name = "HasVertex" -> <<hasVertex(list, v)>>
      [] name = "Order" -> <<Order(list)>>
      [] name = "OutDegree" ->
            IF kind = "directed" THEN directedOutDegree(list, v) ELSE undirectedOutDegree(list, v)
      [] name = "InDegree" -> undirectedInDegree(list, v)
      [] name = "EachVertex" -> <<DOMAIN list>>
      [] name = "EachAdjacent" -> <<DOMAIN Adj(list, v)>>
      [] name = "EachEdge" -> <<{<<u, x>> \in ConcVertices \X ConcVertices : x \in DOMAIN Adj(list, u)}>>
      [] name = "EachWeightedEdge" -> <<list>>

\* The body of a method that reads under one RLock.
Read(t) ==
    /\ th[t].pc = "rlocked"
    /\ th[t].op \in ReadOps
    /\ \E v \in ConcVertices :
          Set(t, [th[t] EXCEPT !.pc = "read", !.ret = Result(th[t].op, v), !.seen = <<G>>,
                               !.before = Span[1], !.after = Span[2]])
    /\ UNCHANGED <<kind, list, size, op, args, pre, loop, ret, reg, mu>>

\* directed InDegree after its RLock: the hasVertex test, then one
\* EachAdjacent call per key.  Density after its RLock: one Order call.
ScanBegin(t) ==
    /\ th[t].pc = "rlocked"
    /\ th[t].op \in NestedOps
    /\ \E v \in ConcVertices :
          Set(t, [th[t] EXCEPT !.pc = "scan", !.ret = <<0>>, !.todo = <<v>>, !.seen = <<G>>,
                               !.keys = IF th[t].op = "Density" THEN {"Order"}
                                        ELSE IF hasVertex(list, v) THEN DOMAIN list ELSE {}])
    /\ UNCHANGED <<kind, list, size, op, args, pre, loop, ret, reg, mu>>

\* RLock at the top of the public method called with the read lock held.
NestedRLock(t) ==
    /\ th[t].pc = "scan"
    /\ th[t].keys # {}
    /\ CanRLock
    /\ mu' = [mu EXCEPT !.r[t] = @ + 1]
    /\ Set(t, [th[t] EXCEPT !.pc = "inner"])
    /\ UNCHANGED <<kind, list, size, op, args, pre, loop, ret, reg>>

\* The body of that method and its deferred RUnlock.
NestedRUnlock(t) ==
    /\ th[t].pc = "inner"
    /\ \E k \in th[t].keys :
          Set(t, [th[t] EXCEPT !.pc = "scan", !.keys = @ \ {k}, !.seen = <<G>>,
                               !.ret = IF th[t].op = "Density" THEN <<Order(list)>>
                                       ELSE <<@[1] + Cardinality({a \in DOMAIN Adj(list, k) : a = th[t].todo[1]})>>])
    /\ mu' = [mu EXCEPT !.r[t] = @ - 1]
    /\ UNCHANGED <<kind, list, size, op, args, pre, loop, ret, reg>>

\* The end of InDegree's loop; Density reads g.Size() and divides.
ScanEnd(t) ==
    /\ th[t].pc = "scan"
    /\ th[t].keys = {}
    /\ Set(t, [th[t] EXCEPT !.pc = "read", !.before = Span[1], !.after = Span[2],
                            !.ret = IF th[t].op = "Density" THEN <<size, @[1]>> ELSE @])
    /\ UNCHANGED <<kind, list, size, op, args, pre, loop, ret, reg, mu>>

\* The deferred RUnlock of a reading method, and the return.
RUnlock(t) ==
    /\ th[t].pc = "read"
    /\ th[t].op # "Size"
    /\ mu' = [mu EXCEPT !.r[t] = @ - 1]
    /\ Set(t, IdleThread)
    /\ UNCHANGED <<kind, list, size, op, args, pre, loop, ret, reg>>

\* Size(): return g.size, without a lock.
SizeRead(t) ==
    /\ th[t].pc = "enter"
    /\ th[t].op = "Size"
    /\ Set(t, [th[t] EXCEPT !.pc = "read", !.ret = <<size>>,
                            !.before = Span[1], !.after = Span[2]])
    /\ UNCHANGED <<kind, list, size, op, args, pre, loop, ret, reg, mu>>

SizeReturn(t) ==
    /\ th[t].pc = "read"
    /\ th[t].op = "Size"
    /\ Set(t, IdleThread)
    /\ UNCHANGED <<kind, list, size, op, args, pre, loop, ret, reg, mu>>

NextConc ==
    \/ \E t \in Threads : Enter(t)
    \/ \E t \in Threads : LockRequest(t)
    \/ \E t \in Threads : LockAcquire(t)
    \/ \E t \in Threads : WriteStep(t)
    \/ \E t \in Threads : WriteBody(t)
    \/ \E t \in Threads : Unlock(t)
    \/ \E t \in Threads : RLock(t)
    \/ \E t \in Threads : Read(t)
    \/ \E t \in Threads : ScanBegin(t)
    \/ \E t \in Threads : NestedRLock(t)
    \/ \E t \in Threads : NestedRUnlock(t)
    \/ \E t \in Threads : ScanEnd(t)
    \/ \E t \in Threads : RUnlock(t)
    \/ \E t \in Threads : SizeRead(t)
    \/ \E t \in Threads : SizeReturn(t)

SpecConc == Init /\ [][NextConc]_vars

\* ------------------------- a callback that calls back into the graph
\* One goroutine calls the mutating methods and the enumerators; the
\* callback it passes either leaves the graph alone or calls one mutating
\* method of the same graph.  A mutating method is called with an empty
\* argument list ("none") or with arguments ("some").
Caller == "t1"
ArgLists == {"none", "some"}
EnumOps == {"EachVertex", "EachAdjacent", "EachEdge", "EachWeightedEdge"}

\* What an enumerator passes to its callback, one invocation per element.
Items(name, v) ==
    CASE name = "EachVertex" -> DOMAIN list
      [] name = "EachAdjacent" -> DOMAIN Adj(list, v)
      [] name = "EachEdge" ->
            IF kind = "directed"
            THEN {p \in ConcVertices \X ConcVertices : p[2] \in DOMAIN Adj(list, p[1])}
            ELSE {{p[1], p[2]} : p \in {q \in ConcVertices \X ConcVertices : q[2] \in DOMAIN Adj(list, q[1])}}
      [] name = "EachWeightedEdge" ->
            {p \in ConcVertices \X ConcVertices : p[2] \in DOMAIN Adj(list, p[1])}

\* The goroutine calls a mutating method.
WriteCall(t) ==
    /\ th[t].pc = "idle"
    /\ \E w \in WriteOps, a \in ArgLists :
          Set(t, [IdleThread EXCEPT !.pc = "call", !.todo = <<w, a>>])
    /\ UNCHANGED <<kind, list, size, op, args, pre, loop, ret, reg, mu>>

\* The goroutine calls an enumerator with a callback.
EnumCall(t) ==
    /\ th[t].pc = "idle"
    /\ \E name \in EnumOps, c \in {<<>>} \cup {<<w, a>> : w \in WriteOps, a \in ArgLists} :
          Set(t, [IdleThread EXCEPT !.pc = "enum", !.op = name, !.todo = c])
    /\ UNCHANGED <<kind, list, size, op, args, pre, loop, ret, reg, mu>>

\* g.mu.RLock() at the top of the enumerator, and the entry of its loop.
EnumRLock(t) ==
    /\ th[t].pc = "enum"
    /\ CanRLock
    /\ mu' = [mu EXCEPT !.r[t] = @ + 1]
    /\ \E v \in ConcVertices :
          Set(t, [th[t] EXCEPT !.pc = "loop", !.keys = Items(th[t].op, v),
                               !.ret = <<0>>, !.before = G])
    /\ UNCHANGED <<kind, list, size, op, args, pre, loop, ret, reg>>

\* One iteration: the callback is invoked; it returns at once, or it calls
\* its mutating method.
EnumCallback(t) ==
    /\ th[t].pc = "loop"
    /\ \E k \in th[t].keys :
          Set(t, [th[t] EXCEPT !.keys = @ \ {k}, !.ret = <<@[1] + 1>>,
                               !.pc = IF th[t].todo = <<>> THEN "loop" ELSE "call"])
    /\ UNCHANGED <<kind, list, size, op, args, pre, loop, ret, reg, mu>>

\* if len(vertices) == 0 { return }: a mutating method called without
\* arguments returns before it touches the lock.
WriteReturnEmpty(t) ==
    /\ th[t].pc = "call"
    /\ th[t].todo[2] = "none"
    /\ Set(t, IF th[t].op \in EnumOps THEN [th[t] EXCEPT !.pc = "loop"] ELSE IdleThread)
    /\ UNCHANGED <<kind, list, size, op, args, pre, loop, ret, reg, mu>>

\* g.mu.Lock() of the mutating method: other writers are excluded and new
\* readers blocked ...
WriteLock(t) ==
    /\ th[t].pc = "call"
    /\ th[t].todo[2] = "some"
    /\ mu.w = NoThread
    /\ mu' = [mu EXCEPT !.w = t]
    /\ Set(t, [th[t] EXCEPT !.pc = "pending"])
    /\ UNCHANGED <<kind, list, size, op, args, pre, loop, ret, reg>>

\* A variant of the lock that does not count the caller's own read hold.
NoOtherReaders(t) == \A u \in Threads \ {t} : mu.r[u] = 0

\* sync.RWMutex: Lock returns when no read hold is left, whoever has it.
NoReaders(t) == \A u \in Threads : mu.r[u] = 0

\* ... and Lock returns once every read hold is released.
WriteLocked(t) ==
    /\ th[t].pc = "pending"
    /\ NoReaders(t)
    /\ mu' = [mu EXCEPT !.held = TRUE]
    /\ Set(t, [th[t] EXCEPT !.pc = "locked"])
    /\ UNCHANGED <<kind, list, size, op, args, pre, loop, ret, reg>>

\* The body of the mutating method.
WriteApply(t) ==
    /\ th[t].pc = "locked"
    /\ \E batch \in Batches(th[t].todo[1]) :
          LET g2 == Apply(th[t].todo[1], G, batch)
          IN  list' = g2.list /\ size' = g2.size
    /\ Set(t, [th[t] EXCEPT !.pc = "done"])
    /\ UNCHANGED <<kind, op, args, pre, loop, ret, reg, mu>>

\* The deferred Unlock; the method returns to its caller, which is the
\* goroutine's top level or the callback of the running enumerator.
WriteUnlock(t) ==
    /\ th[t].pc = "done"
    /\ mu' = [mu EXCEPT !.w = NoThread, !.held = FALSE]
    /\ Set(t, IF th[t].op \in EnumOps THEN [th[t] EXCEPT !.pc = "loop"] ELSE IdleThread)
    /\ UNCHANGED <<kind, list, size, op, args, pre, loop, ret, reg>>

\* The end of the enumerator's loop, its deferred RUnlock and the return.
EnumRUnlock(t) ==
    /\ th[t].pc = "loop"
    /\ th[t].keys = {}
    /\ mu' = [mu EXCEPT !.r[t] = @ - 1]
    /\ Set(t, IdleThread)
    /\ UNCHANGED <<kind, list, size, op, args, pre, loop, ret, reg>>

NextCb ==
    \/ WriteCall(Caller)
    \/ EnumCall(Caller)
    \/ EnumRLock(Caller)
    \/ EnumCallback(Caller)
    \/ WriteReturnEmpty(Caller)
    \/ WriteLock(Caller)
    \/ WriteLocked(Caller)
    \/ WriteApply(Caller)
    \/ WriteUnlock(Caller)
    \/ EnumRUnlock(Caller)

SpecCb == Init /\ [][NextCb]_vars

\* ------------------------------------------------------------ properties
\* The stored arcs: the pairs (source, target) with target in source's map.
Arcs(l) == {p \in Pairs : p[1] \in DOMAIN l /\ p[2] \in DOMAIN l[p[1]]}
\* The stored undirected edges: the unordered pairs of adjacent vertices.
UEdges(l) == {{p[1], p[2]} : p \in Arcs(l)}
\* The edge count a graph of this kind should report.
TrueSize(l) == IF kind = "directed" THEN Cardinality(Arcs(l)) ELSE Cardinality(UEdges(l))
\* How often the callback was invoked with x, and how often in all.
Count(x) == IF x \in DOMAIN calls THEN calls[x] ELSE 0
RECURSIVE SumOver(_, _)
SumOver(c, D) == IF D = {} THEN 0 ELSE LET x == CHOOSE y \in D : TRUE IN c[x] + SumOver(c, D \ {x})
Hits == SumOver(calls, DOMAIN calls)
\* The loops of the running enumerator are exhausted: it is about to return.
EnumDone(name) == op = name /\ outer = {} /\ inner = {}
ArgSet == {args[i] : i \in DOMAIN args}

\* C1: directed graph: after any sequence of EnsureVertex, AddEdges,
\* RemoveEdges and RemoveVertex calls (self-loops included), Size() equals
\* the number of stored arcs.
C1_DirectedSizeIsArcCount ==
    kind = "directed" => size = Cardinality(Arcs(list))

\* A RemoveVertex has taken arcs away and left a self-loop behind.
C1_Witness ==
    /\ kind = "directed"
    /\ op = "RemoveVertex"
    /\ size < pre.size
    /\ \E v \in Vertices : <<v, v>> \in Arcs(list)

\* C2: undirected graph: after any sequence of EnsureVertex, AddEdges,
\* RemoveEdges and RemoveVertex calls (self-loops included), Size() equals
\* the number of distinct unordered adjacent pairs.
C2_UndirectedSizeIsEdgeCount ==
    kind = "undirected" => size = Cardinality(UEdges(list))

\* C3: undirected graph: v is in u's neighbour map with weight w exactly
\* when u is in v's neighbour map with weight w.
C3_UndirectedSymmetry ==
    kind = "undirected" =>
        \A p \in Arcs(list) : <<p[2], p[1]>> \in Arcs(list) /\ list[p[2]][p[1]] = list[p[1]][p[2]]

\* A RemoveEdges given the reverse orientation has removed an edge between
\* two vertices, and another edge is still stored.
C3_Witness ==
    /\ kind = "undirected"
    /\ op = "RemoveEdges"
    /\ \E i \in DOMAIN args :
        /\ args[i][1] # args[i][2]
        /\ <<args[i][1], args[i][2]>> \in Arcs(pre.list) \ Arcs(list)
    /\ \E p \in Arcs(list) : p[1] # p[2]

\* C4: undirected graph: a finished EachEdge has invoked the callback once
\* per undirected edge, with exactly one of its two orientations, and with
\* nothing else.
C4_UndirectedEachEdgeOnce ==
    (kind = "undirected" /\ EnumDone("EachEdge")) =>
        /\ \A p \in Arcs(list) :
              (IF p[1] = p[2] THEN Count(BaseEdge(p[1], p[1]))
               ELSE Count(BaseEdge(p[1], p[2])) + Count(BaseEdge(p[2], p[1]))) = 1
        /\ DOMAIN calls \subseteq {BaseEdge(p[1], p[2]) : p \in Arcs(list)}
        /\ Hits = Cardinality(UEdges(list))

\* EachEdge has finished on a graph of two or more edges.
C4_Witness ==
    /\ kind = "undirected"
    /\ EnumDone("EachEdge")
    /\ Cardinality(UEdges(list)) >= 2
    /\ \E p \in Arcs(list) : p[1] # p[2]
    /\ Hits >= 2

\* C5: undirected graph: a finished EachWeightedEdge has invoked the callback
\* once per undirected edge, with one orientation and the stored weight.
C5_UndirectedEachWeightedEdgeOnce ==
    (kind = "undirected" /\ EnumDone("EachWeightedEdge")) =>
        /\ \A p \in Arcs(list) :
              LET w == list[p[1]][p[2]]
              IN  (IF p[1] = p[2] THEN Count(BaseWeightedEdge(p[1], p[1], w))
                   ELSE Count(BaseWeightedEdge(p[1], p[2], w))
                        + Count(BaseWeightedEdge(p[2], p[1], w))) = 1
        /\ Hits = Cardinality(UEdges(list))

\* C6: an enumerator whose callback asks for termination at every
\* invocation invokes it at most once.
C6_StopsAfterFirstSignal ==
    cb = "stop" => Hits <= 1

\* C7: AddEdges keeps every stored slot and its weight; it changes nothing
\* when every edge given is already stored; Size() grows by the number of
\* distinct edges that were not stored, however often each is given.
C7_AddEdgesFirstWriteWins ==
    op = "AddEdges" =>
        /\ \A p \in Arcs(pre.list) :
              p \in Arcs(list) /\ list[p[1]][p[2]] = pre.list[p[1]][p[2]]
        /\ ((\A e \in ArgSet : <<e.U, e.V>> \in Arcs(pre.list)) =>
              (list = pre.list /\ size = pre.size))
        /\ size - pre.size =
              (IF kind = "directed"
               THEN Cardinality({<<e.U, e.V>> : e \in ArgSet} \ Arcs(pre.list))
               ELSE Cardinality({{e.U, e.V} : e \in ArgSet} \ UEdges(pre.list)))

\* One AddEdges call was given a new edge twice, with two weights, on a
\* graph that already held an edge.
C7_Witness ==
    /\ op = "AddEdges"
    /\ Len(args) = 2
    /\ args[1].U = args[2].U
    /\ args[1].V = args[2].V
    /\ args[1].W # args[2].W
    /\ <<args[1].U, args[1].V>> \notin Arcs(pre.list)
    /\ list[args[1].U][args[1].V] = args[1].W
    /\ pre.size >= 1

\* C8 as stated: AddEdges(e) on a graph holding neither endpoint of e raises
\* Order() by 2 and Size() by 1, for every edge e.
C8_NewEdgeAddsTwoVertices ==
    (/\ op = "AddEdges"
     /\ Len(args) = 1
     /\ args[1].U \notin DOMAIN pre.list
     /\ args[1].V \notin DOMAIN pre.list) =>
        (Order(list) = Order(pre.list) + 2 /\ size = pre.size + 1)

\* C8 amended: the same for every edge e whose endpoints are two different
\* vertices.
C8_NewEdgeAddsItsEndpoints ==
    (/\ op = "AddEdges"
     /\ Len(args) = 1
     /\ args[1].U # args[1].V
     /\ args[1].U \notin DOMAIN pre.list
     /\ args[1].V \notin DOMAIN pre.list) =>
        (Order(list) = Order(pre.list) + 2 /\ size = pre.size + 1)

\* AddEdges(e) has run on a non-empty graph that held neither endpoint of e.
C8_Witness ==
    /\ op = "AddEdges"
    /\ Len(args) = 1
    /\ args[1].U # args[1].V
    /\ args[1].U \notin DOMAIN pre.list
    /\ args[1].V \notin DOMAIN pre.list
    /\ Order(pre.list) = 1
    /\ Order(list) = 3

\* C9: RemoveVertex(v) of a present v leaves v in no key set and no neighbour
\* map, keeps every edge not incident to v, and lowers Size() by the number
\* of edges incident to v; of an absent v it changes nothing.
C9_RemoveVertexExact ==
    (op = "RemoveVertex" /\ Len(args) = 1) =>
        LET v == args[1]
            incident == {p \in Arcs(pre.list) : p[1] = v \/ p[2] = v}
        IN  IF v \in DOMAIN pre.list
            THEN /\ DOMAIN list = DOMAIN pre.list \ {v}
                 /\ Arcs(list) = Arcs(pre.list) \ incident
                 /\ \A p \in Arcs(list) : list[p[1]][p[2]] = pre.list[p[1]][p[2]]
                 /\ pre.size - size =
                       (IF kind = "directed" THEN Cardinality(incident)
                        ELSE Cardinality({{p[1], p[2]} : p \in incident}))
            ELSE list = pre.list /\ size = pre.size

\* C10: on either kind of graph, a finished EachAdjacent(v, f) has invoked f
\* once for each vertex joined to v by an edge in either direction, v itself
\* excepted, and for no other vertex.
C10_EachAdjacentBothDirections ==
    EnumDone("EachAdjacent") =>
        LET v == args[1]
            joined == {u \in Vertices \ {v} : <<v, u>> \in Arcs(list) \/ <<u, v>> \in Arcs(list)}
        IN  DOMAIN calls = joined /\ \A u \in joined : calls[u] = 1

\* The sum of the degrees f reports for the vertices in D.
RECURSIVE DegreeSum(_, _, _)
DegreeSum(l, D, which) ==
    IF D = {} THEN 0
    ELSE LET v == CHOOSE x \in D : TRUE
         IN  (IF which = "out" THEN directedOutDegree(l, v)[1] ELSE directedInDegree(l, v)[1])
                 + DegreeSum(l, D \ {v}, which)

\* C11: directed graph: for a present vertex v, OutDegree(v) returns the
\* number of arcs out of v and true, InDegree(v) the number of arcs into v
\* and true; the out-degrees and the in-degrees of all vertices each add up
\* to Size().
C11_DirectedDegrees ==
    kind = "directed" =>
        /\ (op = "OutDegree" /\ args[1] \in DOMAIN list) =>
              ret = <<Cardinality({p \in Arcs(list) : p[1] = args[1]}), TRUE>>
        /\ (op = "InDegree" /\ args[1] \in DOMAIN list) =>
              ret = <<Cardinality({p \in Arcs(list) : p[2] = args[1]}), TRUE>>
        /\ DegreeSum(list, DOMAIN list, "out") = size
        /\ DegreeSum(list, DOMAIN list, "in") = size

\* InDegree(v) has returned 2 for a vertex with a self-loop and another
\* in-degree than out-degree.
C11_Witness ==
    /\ kind = "directed"
    /\ op = "InDegree"
    /\ ret = <<2, TRUE>>
    /\ <<args[1], args[1]>> \in Arcs(list)
    /\ Cardinality(DOMAIN list[args[1]]) # 2

\* C12: for a vertex that is not in the graph HasVertex returns false,
\* OutDegree and InDegree return (0, false), EachAdjacent never invokes its
\* callback, and the graph is left as it was; for a present vertex without
\* any edge the degree queries return (0, true).
C12_AbsenceIsNotAnError ==
    (op \in {"HasVertex", "OutDegree", "InDegree", "EachAdjacent"}) =>
        LET v == args[1]
        IN  /\ list = pre.list /\ size = pre.size
            /\ (v \notin DOMAIN pre.list) =>
                  /\ v \notin DOMAIN list
                  /\ op = "HasVertex" => ret = <<FALSE>>
                  /\ op \in {"OutDegree", "InDegree"} => ret = <<0, FALSE>>
                  /\ op = "EachAdjacent" => (calls = EmptyMap /\ inner = {})
            /\ (/\ v \in DOMAIN pre.list
                /\ op \in {"OutDegree", "InDegree"}
                /\ \A p \in Arcs(pre.list) : p[1] # v /\ p[2] # v) => ret = <<0, TRUE>>

\* A degree query for an absent vertex has returned on a graph with edges.
C12_Witness ==
    /\ op \in {"OutDegree", "InDegree"}
    /\ args[1] \notin DOMAIN list
    /\ ret = <<0, FALSE>>
    /\ size >= 1
    /\ \E u \in DOMAIN list : DOMAIN list[u] = {}

\* C13: EnsureVertex gives every absent vertex of its list an empty neighbour
\* map, leaves the neighbour map of every present vertex and Size() alone,
\* and a second identical call changes nothing.
C13_EnsureVertexIdempotent ==
    op = "EnsureVertex" =>
        LET given == {args[i] : i \in DOMAIN args}
        IN  /\ DOMAIN list = DOMAIN pre.list \cup given
            /\ \A v \in given \ DOMAIN pre.list : DOMAIN list[v] = {}
            /\ \A v \in DOMAIN pre.list : list[v] = pre.list[v]
            /\ size = pre.size
            /\ ensureVertex(list, args) = list
            /\ Order(ensureVertex(list, args)) = Order(list)

\* EnsureVertex was given a new vertex and one that already had a neighbour.
C13_Witness ==
    /\ op = "EnsureVertex"
    /\ \E i \in DOMAIN args : args[i] \notin DOMAIN pre.list
    /\ \E i \in DOMAIN args : args[i] \in DOMAIN pre.list /\ DOMAIN pre.list[args[i]] # {}

\* C14: on both kinds of graph every vertex found in a neighbour map is a
\* key of the adjacency mapping.
C14_VertexClosure ==
    \A u \in DOMAIN list : DOMAIN list[u] \subseteq DOMAIN list

\* RemoveVertex has removed a vertex that other vertices pointed to, and a
\* key with an empty neighbour map is in the graph.
C14_Witness ==
    /\ op = "RemoveVertex"
    /\ \E i \in DOMAIN args : \E p \in Arcs(pre.list) : p[2] = args[i] /\ p[1] # args[i]
    /\ \E u \in DOMAIN list : DOMAIN list[u] = {}
    /\ size >= 1

\* C20: directed graph: a finished EachEdge has invoked the callback exactly
\* once for every stored arc and for nothing else, a finished
\* EachWeightedEdge once for every stored arc with its weight; the number of
\* invocations is Size().
C20_DirectedEachEdgeOncePerArc ==
    kind = "directed" =>
        /\ EnumDone("EachEdge") =>
              /\ DOMAIN calls = {BaseEdge(p[1], p[2]) : p \in Arcs(list)}
              /\ \A x \in DOMAIN calls : calls[x] = 1
              /\ Hits = size
        /\ EnumDone("EachWeightedEdge") =>
              /\ DOMAIN calls = {BaseWeightedEdge(p[1], p[2], list[p[1]][p[2]]) : p \in Arcs(list)}
              /\ \A x \in DOMAIN calls : calls[x] = 1
              /\ Hits = size

\* EachWeightedEdge has finished on a graph holding an arc, its reverse and
\* a self-loop.
C20_Witness ==
    /\ kind = "directed"
    /\ EnumDone("EachWeightedEdge")
    /\ \E p \in Arcs(list) : p[1] # p[2] /\ <<p[2], p[1]>> \in Arcs(list)
    /\ \E v \in Vertices : <<v, v>> \in Arcs(list)
    /\ Hits = 3

RegOps == {"Register", "CreateImmutableGraph", "gi.EnsureVertex", "gi.AddEdge", "GetGraph"}

\* C18: CreateImmutableGraph with a name that is not registered returns an
\* error and no initializer, creates no graph and leaves the registry as it
\* was; with the empty registry this is so for every name.
C18_UnregisteredNameFails ==
    (op = "CreateImmutableGraph" /\ args[1] \notin DOMAIN pre.immutableGraphs) =>
        /\ ret[1] = Nil
        /\ ret[2] # Nil
        /\ immutableGraphs = pre.immutableGraphs
        /\ gi = pre.g
        /\ kind = pre.kind /\ list = pre.list /\ size = pre.size

\* CreateImmutableGraph has failed on the empty registry.
C18_Witness ==
    /\ op = "CreateImmutableGraph"
    /\ pre.immutableGraphs = EmptyMap
    /\ ret[1] = Nil
    /\ kind = "none"

\* C19: the first GetGraph returns the graph built so far and sets gi.g to
\* nil; from then on gi.g stays nil, EnsureVertex and AddEdge through the
\* initializer leave the graph as it was, and GetGraph returns nil.
C19_BuildOnce ==
    (op \in RegOps) =>
        /\ (op = "GetGraph" /\ pre.g = TheGraph) =>
              /\ ret = <<TheGraph>>
              /\ gi = Nil
              /\ list = pre.list /\ size = pre.size
        /\ (pre.g = Nil) =>
              /\ gi = Nil
              /\ list = pre.list /\ size = pre.size /\ kind = pre.kind
              /\ op = "GetGraph" => ret = <<Nil>>
              /\ op \in {"gi.EnsureVertex", "gi.AddEdge"} => ret = <<"panic">>

\* AddEdge was called through the initializer after GetGraph had handed
\* out a graph with an edge.
C19_Witness ==
    /\ op = "gi.AddEdge"
    /\ pre.g = Nil
    /\ size >= 1
    /\ list = pre.list

\* C15: a query that runs while another goroutine applies an AddEdges batch
\* returns what it would return before the whole batch or after the whole
\* batch: Size returns one of the two counter values, every other query has
\* read one of the two graphs.
C15_BatchAtomicity ==
    \A t \in Threads :
        th[t].pc = "read" =>
            IF th[t].op = "Size"
            THEN th[t].ret[1] \in {th[t].before.size, th[t].after.size}
            ELSE th[t].seen[1] \in {th[t].before, th[t].after}

\* t waits for u: t is blocked in RLock or Lock by the writer u, or t is a
\* writer blocked in Lock by the read hold of u.
WaitsFor(t, u) ==
    \/ /\ th[t].pc = "enter"
       /\ th[t].op \in WriteOps \cup ReadOps \cup NestedOps
       /\ mu.w = u
    \/ /\ th[t].pc = "scan"
       /\ th[t].keys # {}
       /\ mu.w = u
    \/ /\ th[t].pc = "pending"
       /\ mu.r[u] > 0

\* C16: no call blocks forever: there is no state in which two goroutines
\* inside calls wait for each other, in particular not a directed InDegree
\* or a Density between its two RLock calls and a writer inside Lock.
C16_NoCallBlocksForever ==
    \A t \in Threads, u \in Threads : ~(WaitsFor(t, u) /\ WaitsFor(u, t))

InWrite(t) == th[t].pc \in {"locked", "done"}
InRead(t) == th[t].pc \in {"rlocked", "scan", "inner", "read"} /\ th[t].op # "Size"
HoldsLock(t) == mu.r[t] > 0 \/ (mu.w = t /\ mu.held)

\* C17: a goroutine in the critical section of a write operation is the
\* only one in a critical section of the graph; every step that changes the
\* adjacency mapping or the counter is taken by the goroutine that holds
\* the write lock; every step that reads the adjacency mapping is taken by
\* a goroutine that holds the read or the write lock.
C17_LockDiscipline ==
    /\ [](\A t \in Threads : InWrite(t) =>
            /\ mu.w = t /\ mu.held
            /\ \A u \in Threads \ {t} : ~InWrite(u) /\ ~InRead(u))
    /\ [][(list' # list \/ size' # size) =>
            \E t \in Threads : InWrite(t) /\ mu.w = t /\ mu.held /\ th'[t] # th[t]]_vars
    /\ [][\A t \in Threads :
            (th'[t].seen # th[t].seen /\ th'[t].seen # <<>>) => HoldsLock(t)]_vars

\* A writer is half way through a batch that has changed the graph while
\* the other goroutine has called a reading method and waits.
C17_Witness ==
    \E t \in Threads, u \in Threads :
        /\ th[t].pc = "locked"
        /\ th[t].op = "AddEdges"
        /\ G # th[t].before
        /\ th[u].pc = "enter"
        /\ th[u].op \in ReadOps

\* C21: undirected graph holding an edge stored as (u,v): AddEdges((v,u))
\* with any weight changes nothing; RemoveEdges((v,u)) does what
\* RemoveEdges((u,v)) does: both slots are deleted, every other slot is
\* kept, Size() goes down by exactly 1 and both endpoints stay vertices.
C21_UndirectedOrientationFree ==
    (kind = "undirected" /\ op \in {"AddEdges", "RemoveEdges"} /\ Len(args) = 1) =>
        LET u == IF op = "AddEdges" THEN args[1].V ELSE args[1][2]
            v == IF op = "AddEdges" THEN args[1].U ELSE args[1][1]
        IN  (v \in DOMAIN Adj(pre.list, u)) =>
              /\ op = "AddEdges" => (list = pre.list /\ size = pre.size)
              /\ op = "RemoveEdges" =>
                    /\ G = undirectedRemoveEdges(pre, <<<<u, v>>>>)
                    /\ <<u, v>> \notin Arcs(list) /\ <<v, u>> \notin Arcs(list)
                    /\ \A p \in Arcs(pre.list) \ {<<u, v>>, <<v, u>>} :
                          p \in Arcs(list) /\ list[p[1]][p[2]] = pre.list[p[1]][p[2]]
                    /\ Arcs(list) \subseteq Arcs(pre.list)
                    /\ size = pre.size - 1
                    /\ DOMAIN list = DOMAIN pre.list

\* RemoveEdges has removed an edge between two different vertices of a
\* graph with another edge, and the edge was stored with both orientations.
C21_Witness ==
    /\ kind = "undirected"
    /\ op = "RemoveEdges"
    /\ Len(args) = 1
    /\ args[1][1] # args[1][2]
    /\ <<args[1][2], args[1][1]>> \in Arcs(pre.list)
    /\ size = pre.size - 1
    /\ size >= 1

\* C22: directed RemoveEdges((u,v)): a stored arc u->v is deleted and
\* Size() goes down by exactly 1, while the reverse arc, every other arc
\* with its weight and the vertex set are kept; when u->v is not stored
\* (u or v may not be a vertex) the graph is left as it was.
C22_DirectedRemoveForwardOnly ==
    (kind = "directed" /\ op = "RemoveEdges" /\ Len(args) = 1) =>
        LET u == args[1][1]
            v == args[1][2]
        IN  IF <<u, v>> \in Arcs(pre.list)
            THEN /\ Arcs(list) = Arcs(pre.list) \ {<<u, v>>}
                 /\ \A p \in Arcs(list) : list[p[1]][p[2]] = pre.list[p[1]][p[2]]
                 /\ size = pre.size - 1
                 /\ DOMAIN list = DOMAIN pre.list
                 /\ Order(list) = Order(pre.list)
            ELSE list = pre.list /\ size = pre.size

\* RemoveEdges has removed u->v from a graph that holds v->u.
C22_Witness ==
    /\ kind = "directed"
    /\ op = "RemoveEdges"
    /\ Len(args) = 1
    /\ args[1][1] # args[1][2]
    /\ <<args[1][1], args[1][2]>> \in Arcs(pre.list)
    /\ <<args[1][2], args[1][1]>> \in Arcs(list)
    /\ size = pre.size - 1

\* C23: on both kinds of graph no vertex is in its own neighbour map, and a
\* pair (u,v) has at most one stored weight.
C23_SimpleGraph ==
    /\ \A v \in DOMAIN list : v \notin DOMAIN list[v]
    /\ \A u \in DOMAIN list : \A v \in DOMAIN list[u] : Cardinality({w \in Weights : list[u][v] = w}) = 1

\* The goroutine is in its enumerator's loop or in a callback of it.
InEnum(t) == th[t].op \in EnumOps /\ th[t].pc \in {"loop", "call", "pending", "locked", "done"}
\* The goroutine is in the mutating method its callback has called.
InCallbackWrite(t) == th[t].op \in EnumOps /\ th[t].pc \in {"call", "pending", "locked", "done"}
\* ... and that method was called with at least one argument.
InCallbackWriteWithArgs(t) == InCallbackWrite(t) /\ th[t].todo[2] = "some"

\* C24 as stated: an enumerator holds the read lock from before its first
\* callback invocation until it returns; a mutating method called by the
\* callback never gets the write lock and never returns, and the graph
\* stays as it was when the enumeration began.
C24_CallbackWriteBlocks ==
    /\ [](\A t \in Threads :
            /\ InEnum(t) => mu.r[t] > 0
            /\ InCallbackWrite(t) =>
                  /\ th[t].pc \in {"call", "pending"}
                  /\ ~(mu.held /\ mu.w = t)
                  /\ G = th[t].before)
    /\ [][\A t \in Threads :
            /\ (th[t].op \in EnumOps /\ th'[t].ret # th[t].ret /\ th[t].pc = "loop") => mu.r[t] > 0
            /\ InCallbackWrite(t) => (InCallbackWrite(t)' /\ list' = list /\ size' = size)]_vars

\* C24, amended: an enumerator holds the read lock from before its first
\* callback invocation until it returns; a mutating method that the
\* callback calls with at least one argument never gets the write lock and
\* never returns; a mutating method called without arguments returns
\* without having held the write lock; in both cases the graph stays as it
\* was when the enumeration began.
C24_CallbackWriteWithArgsBlocks ==
    /\ [](\A t \in Threads :
            /\ InEnum(t) => (mu.r[t] > 0 /\ G = th[t].before)
            /\ InCallbackWrite(t) =>
                  /\ th[t].pc \in {"call", "pending"}
                  /\ ~(mu.held /\ mu.w = t))
    /\ [][\A t \in Threads :
            /\ (th[t].op \in EnumOps /\ th'[t].ret # th[t].ret /\ th[t].pc = "loop") => mu.r[t] > 0
            /\ InCallbackWriteWithArgs(t) =>
                  (InCallbackWriteWithArgs(t)' /\ list' = list /\ size' = size)
            /\ (InCallbackWrite(t) /\ ~InCallbackWrite(t)') =>
                  (th[t].todo[2] = "none" /\ th[t].pc = "call" /\ th'[t].pc = "loop"
                   /\ list' = list /\ size' = size /\ mu' = mu)]_vars

\* A callback of an enumeration of a graph with an edge has called a
\* mutating method with arguments, which is inside Lock.
C24_Witness ==
    \E t \in Threads :
        /\ InCallbackWriteWithArgs(t)
        /\ th[t].pc = "pending"
        /\ th[t].ret[1] >= 1
        /\ size >= 1
        /\ mu.r[t] > 0

====
